---- MODULE Spec2Model ----
(***************************************************************************)
(* Model of the upgrade plan-info verifier of x/upgrade:                   *)
(*   - the software-upgrade command (NewCmdSubmitUpgradeProposal.RunE),    *)
(*   - planinfo.ParsePlanInfo,                                             *)
(*   - PlanInfo.ValidateFull, BinaryDownloadURLMap.ValidateBasic and       *)
(*     BinaryDownloadURLMap.CheckURLs.                                     *)
(* Go strings are sequences of one-character strings, so that trimming,    *)
(* URL parsing, the os/arch pattern, JSON encoding and JSON decoding are   *)
(* computed character by character.                                        *)
(***************************************************************************)
EXTENDS Integers, Sequences, FiniteSets, TLC

(***************************************************************************)
(* Characters and strings                                                  *)
(***************************************************************************)

\* the letters and digits the model's strings are written with
Letters == {"a", "b", "c", "d", "e", "h", "i", "l", "n", "p", "q", "r", "s", "u", "x", "y"}

Digits == {"1"}

\* [a-zA-Z0-9] of the os/arch pattern
IsAlnum(c) == c \in Letters \cup Digits

\* bytes < 0x20: "\n" is line feed, "\f" is form feed
CtlChars == {"\n", "\f"}

\* unicode.IsSpace, which strings.TrimSpace strips
IsSpace(c) == c \in {" ", "\n", "\f"}

\* the whitespace encoding/json skips between tokens (form feed is not one)
IsJSONSpace(c) == c \in {" ", "\n"}

\* the order of the characters as bytes, used to sort map keys when encoding
CharOrder == <<"\n", "\f", " ", "\"", "#", ",", "-", "/", "1", ":", "?",
               "a", "b", "c", "d", "e", "h", "i", "l", "n", "p", "q", "r", "s",
               "u", "x", "y", "{", "}">>

Rank(c) == CHOOSE i \in 1..Len(CharOrder) : CharOrder[i] = c

DropFirst(s, n) == SubSeq(s, n + 1, Len(s))

HasPrefix(s, p) == Len(s) >= Len(p) /\ SubSeq(s, 1, Len(p)) = p

Contains(s, c) == \E i \in 1..Len(s) : s[i] = c

\* index of the first c in s, 0 if there is none
IndexOf(s, c) ==
    IF Contains(s, c) THEN CHOOSE i \in 1..Len(s) : s[i] = c /\ \A j \in 1..(i - 1) : s[j] # c
    ELSE 0

\* index of the last c in s, 0 if there is none
LastIndexOf(s, c) ==
    IF Contains(s, c) THEN CHOOSE i \in 1..Len(s) : s[i] = c /\ \A j \in (i + 1)..Len(s) : s[j] # c
    ELSE 0

\* strings.Cut: the text before and after the first c
CutBefore(s, c) == IF Contains(s, c) THEN SubSeq(s, 1, IndexOf(s, c) - 1) ELSE s

\* strings.TrimSpace
TrimSpace(s) ==
    IF \A i \in 1..Len(s) : IsSpace(s[i]) THEN << >>
    ELSE LET first == CHOOSE i \in 1..Len(s) : ~IsSpace(s[i]) /\ \A j \in 1..(i - 1) : IsSpace(s[j])
             last == CHOOSE i \in 1..Len(s) : ~IsSpace(s[i]) /\ \A j \in (i + 1)..Len(s) : IsSpace(s[j])
         IN  SubSeq(s, first, last)

\* strings.ReplaceAll(s, old, new) for one-character old and new
ReplaceAll(s, old, new) == [i \in 1..Len(s) |-> IF s[i] = old THEN new ELSE s[i]]

\* s < t as Go compares strings (byte-wise)
RECURSIVE StrLess(_, _)
StrLess(s, t) ==
    IF t = << >> THEN FALSE
    ELSE IF s = << >> THEN TRUE
    ELSE IF s[1] # t[1] THEN Rank(s[1]) < Rank(t[1])
    ELSE StrLess(Tail(s), Tail(t))

(***************************************************************************)
(* net/url.Parse: whether it returns an error                              *)
(***************************************************************************)

\* getScheme: 0 when there is no scheme, -1 for "missing protocol scheme",
\* else the index of the colon that ends the scheme
RECURSIVE GetSchemeFrom(_, _)
GetSchemeFrom(s, i) ==
    IF i > Len(s) THEN 0
    ELSE IF s[i] \in Letters THEN GetSchemeFrom(s, i + 1)
    ELSE IF s[i] \in Digits \cup {"-"} THEN (IF i = 1 THEN 0 ELSE GetSchemeFrom(s, i + 1))
    ELSE IF s[i] = ":" THEN (IF i = 1 THEN -1 ELSE i)
    ELSE 0

GetScheme(s) == GetSchemeFrom(s, 1)

\* the characters net/url accepts unescaped in a host name
HostCharOK(c) == IsAlnum(c) \/ c \in {"-", ":", ",", "\""}

\* validOptionalPort: empty, or a colon followed by digits
ValidOptionalPort(p) == p = << >> \/ (p[1] = ":" /\ \A i \in 2..Len(p) : p[i] \in Digits)

\* parseAuthority / parseHost: the host is what follows the last "@"; no
\* "@", "[" or "%" occurs in the model's strings
AuthorityOK(a) ==
    /\ \A i \in 1..Len(a) : HostCharOK(a[i])
    /\ LET c == LastIndexOf(a, ":")
       IN  c = 0 \/ ValidOptionalPort(SubSeq(a, c, Len(a)))

\* url.Parse(rawURL) returns a nil error
URLParseOK(rawURL) ==
    LET u == CutBefore(rawURL, "#")
        sch == GetScheme(u)
        afterScheme == IF sch > 0 THEN DropFirst(u, sch) ELSE u
        rest == CutBefore(afterScheme, "?")
    IN  /\ \A i \in 1..Len(u) : u[i] \notin CtlChars
        /\ sch # -1
        /\ \/ HasPrefix(rest, <<"/">>)
           \/ sch > 0
           \/ ~Contains(CutBefore(rest, "/"), ":")
        /\ (HasPrefix(rest, <<"/", "/">>) /\ (sch > 0 \/ ~HasPrefix(rest, <<"/", "/", "/">>)))
              => AuthorityOK(CutBefore(DropFirst(rest, 2), "/"))

(***************************************************************************)
(* osArchRx                                                                *)
(***************************************************************************)

\* s[i..j] is in the language of [a-zA-Z0-9]+/[a-zA-Z0-9]+
RxMatchesSpan(s, i, j) ==
    \E k \in (i + 1)..(j - 1) :
        /\ s[k] = "/"
        /\ \A m \in i..(k - 1) : IsAlnum(s[m])
        /\ \A m \in (k + 1)..j : IsAlnum(s[m])

\* osArchRx.MatchString(s): the pattern is compiled without ^ and $, so
\* MatchString reports whether s contains any match
osArchRx_MatchString(s) ==
    \E i \in 1..Len(s) : \E j \in i..Len(s) : RxMatchesSpan(s, i, j)

(***************************************************************************)
(* PlanInfo and encoding/json                                              *)
(***************************************************************************)

\* a BinaryDownloadURLMap: a nil map, or a set of <<key, url>> pairs with
\* one pair per key
NilMap == [isNil |-> TRUE, kv |-> {}]

MakeMap(pairs) == [isNil |-> FALSE, kv |-> pairs]

MapKeys(m) == {e[1] : e \in m.kv}

MapLen(m) == Cardinality(m.kv)

MapGet(m, k) == (CHOOSE e \in m.kv : e[1] = k)[2]

\* m[k] = v
MapSet(m, k, v) == MakeMap({e \in m.kv : e[1] # k} \cup {<<k, v>>})

\* PlanInfo{Binaries: m}
PlanInfo(m) == [Binaries |-> m]

S_binaries == <<"b", "i", "n", "a", "r", "i", "e", "s">>

S_null == <<"n", "u", "l", "l">>

S_any == <<"a", "n", "y">>

Quote(s) == <<"\"">> \o s \o <<"\"">>

RECURSIVE SkipWS(_)
SkipWS(s) == IF s # << >> /\ IsJSONSpace(s[1]) THEN SkipWS(Tail(s)) ELSE s

JFail == [ok |-> FALSE, kind |-> "", str |-> << >>, members |-> << >>, rest |-> << >>]

JStr(str, rest) == [ok |-> TRUE, kind |-> "str", str |-> str, members |-> << >>, rest |-> rest]

JNull(rest) == [ok |-> TRUE, kind |-> "null", str |-> << >>, members |-> << >>, rest |-> rest]

JObj(members, rest) == [ok |-> TRUE, kind |-> "obj", str |-> << >>, members |-> members, rest |-> rest]

\* a string literal: s starts at the opening quote.  A control character
\* inside the literal is a syntax error; no backslash occurs in the
\* model's texts
ScanString(s) ==
    LET body == Tail(s)
        close == IndexOf(body, "\"")
    IN  IF s = << >> \/ s[1] # "\"" \/ close = 0 THEN JFail
        ELSE IF \E i \in 1..(close - 1) : body[i] \in CtlChars THEN JFail
        ELSE JStr(SubSeq(body, 1, close - 1), DropFirst(body, close))

RECURSIVE ScanValue(_), ScanMembers(_, _)
\* one JSON value at the start of s (an object, a string or null)
ScanValue(s) ==
    IF s = << >> THEN JFail
    ELSE IF s[1] = "\"" THEN ScanString(s)
    ELSE IF HasPrefix(s, S_null) THEN JNull(DropFirst(s, Len(S_null)))
    ELSE IF s[1] = "{" THEN
        LET in == SkipWS(Tail(s))
        IN  IF in # << >> /\ in[1] = "}" THEN JObj(<< >>, Tail(in))
            ELSE ScanMembers(in, << >>)
    ELSE JFail

\* the members of an object, s starting at a member's key; acc holds the
\* members already read
ScanMembers(s, acc) ==
    LET k == ScanString(s)
        afterKey == SkipWS(k.rest)
        v == ScanValue(SkipWS(Tail(afterKey)))
        afterVal == SkipWS(v.rest)
        members == Append(acc, [key |-> k.str, val |-> [kind |-> v.kind, str |-> v.str, members |-> v.members]])
    IN  IF ~k.ok \/ afterKey = << >> \/ afterKey[1] # ":" THEN JFail
        ELSE IF ~v.ok \/ afterVal = << >> THEN JFail
        ELSE IF afterVal[1] = "}" THEN JObj(members, Tail(afterVal))
        ELSE IF afterVal[1] = "," THEN ScanMembers(SkipWS(Tail(afterVal)), members)
        ELSE JFail

\* decoding an object's members into a map[string]string, in order; a
\* null element stores the zero string, any other non-string is a type error
RECURSIVE DecodeMap(_, _)
DecodeMap(members, m) ==
    IF members = << >> THEN [ok |-> TRUE, m |-> m]
    ELSE LET e == Head(members)
             r == DecodeMap(Tail(members),
                            MapSet(m, e.key, IF e.val.kind = "str" THEN e.val.str ELSE << >>))
         IN  [ok |-> r.ok /\ e.val.kind \in {"str", "null"}, m |-> r.m]

\* decoding an object's members into a PlanInfo, in order: the field
\* "binaries" takes an object (merged into the map) or null (the map
\* becomes nil); every other field is skipped
RECURSIVE DecodeStruct(_, _)
DecodeStruct(members, m) ==
    IF members = << >> THEN [ok |-> TRUE, m |-> m]
    ELSE LET e == Head(members)
         IN  IF e.key # S_binaries THEN DecodeStruct(Tail(members), m)
             ELSE IF e.val.kind = "null" THEN DecodeStruct(Tail(members), NilMap)
             ELSE IF e.val.kind = "obj" THEN
                 LET d == DecodeMap(e.val.members, MakeMap(m.kv))
                     r == DecodeStruct(Tail(members), d.m)
                 IN  [ok |-> d.ok /\ r.ok, m |-> r.m]
             ELSE [ok |-> FALSE, m |-> DecodeStruct(Tail(members), m).m]

\* json.Unmarshal([]byte(text), &planInfo) with planInfo the zero PlanInfo:
\* the whole text must be one JSON value; null leaves the zero value, a
\* string is a type error
Unmarshal(text) ==
    LET v == ScanValue(SkipWS(text))
    IN  IF ~v.ok \/ SkipWS(v.rest) # << >> THEN [ok |-> FALSE, planInfo |-> PlanInfo(NilMap)]
        ELSE IF v.kind = "null" THEN [ok |-> TRUE, planInfo |-> PlanInfo(NilMap)]
        ELSE IF v.kind = "str" THEN [ok |-> FALSE, planInfo |-> PlanInfo(NilMap)]
        ELSE LET d == DecodeStruct(v.members, NilMap)
             IN  [ok |-> d.ok, planInfo |-> PlanInfo(d.m)]

\* the least key of a non-empty set of keys
MinKey(keys) == CHOOSE k \in keys : \A o \in keys : o = k \/ StrLess(k, o)

\* the members of an encoded map, keys in sorted order
RECURSIVE MarshalMembers(_, _)
MarshalMembers(m, keys) ==
    IF keys = {} THEN << >>
    ELSE LET k == MinKey(keys)
         IN  Quote(k) \o <<":">> \o Quote(MapGet(m, k))
                \o (IF keys = {k} THEN << >> ELSE <<",">> \o MarshalMembers(m, keys \ {k}))

\* json.Marshal(p): {"binaries":{"k":"v",...}}, a nil map as null.  No
\* key or URL of the model holds a character that needs an escape
Marshal(p) ==
    <<"{">> \o Quote(S_binaries) \o <<":">>
        \o (IF p.Binaries.isNil THEN S_null
            ELSE <<"{">> \o MarshalMembers(p.Binaries, MapKeys(p.Binaries)) \o <<"}">>)
        \o <<"}">>

(***************************************************************************)
(* Inputs: keys, URLs, plans, info strings and what the network serves     *)
(***************************************************************************)

\* the most entries of a binaries map
MaxEntries == 2

\* how many names os.MkdirTemp can draw its random suffix from
MaxTempNames == 2

K_osarch == <<"a", "/", "b">>

K_three == <<"a", "/", "b", "/", "c">>

K_dash == <<"a", "-", "b", "/", "c">>

K_space == <<" ", "a", "/", "b">>

K_noslash == <<"a", "b">>

Keys == {S_any, K_osarch, K_three, K_dash, K_space, K_noslash}

U_x == <<"h", ":", "/", "/", "x">>

U_y == <<"h", ":", "/", "/", "y">>

\* a space in the host: url.Parse fails
U_bad == <<"h", ":", "/", "/", "a", " ", "b">>

Urls == {U_x, U_y, U_bad}

\* every set of <<key, url>> pairs with one pair per key
PairSets ==
    UNION {{{<<k, f[k]>> : k \in ks} : f \in [ks -> Urls]} :
              ks \in {x \in SUBSET Keys : Cardinality(x) <= MaxEntries}}

Plans == {PlanInfo(NilMap)} \cup {PlanInfo(MakeMap(ps)) : ps \in PairSets}

\* the URLs a plan-info document is hosted at
U_p == <<"h", ":", "/", "/", "p">>

U_q == <<"h", ":", "/", "/", "q">>

J_good == Marshal(PlanInfo(MakeMap({<<K_osarch, U_x>>})))

J_empty == <<"{", "}">>

\* what a GET of U_p may answer with: a plan document, the same between
\* JSON whitespace, the same after a form feed, a document without
\* "binaries", the URL of another document, text that is neither
Bodies == {J_good,
           <<" ">> \o J_good \o <<"\n">>,
           <<"\f">> \o J_good,
           J_empty,
           U_q,
           <<":", "x">>}

Served(body) == [ok |-> TRUE, body |-> body]

Unreachable == [ok |-> FALSE, body |-> << >>]

\* a server that accepts the connection and never answers
Hung == [ok |-> FALSE, body |-> <<"hung">>]

\* info strings given by hand: URLs (bare and between spaces), an empty
\* string, a document without "binaries", text that is neither
HandInfos == {U_p, <<" ">> \o U_p \o <<"\n">>, U_q, << >>, J_empty, <<":", "x">>, S_null}

\* an input: the --upgrade-info string and what U_p and U_q serve.  The
\* string is the JSON encoding of a plan (from holds the plan) or is given
\* by hand.  U_q always serves J_good; U_p serves any body, or nothing,
\* or never answers, when the string is given by hand
Worlds(upBody) == [u \in {U_p, U_q} |-> IF u = U_q THEN Served(J_good) ELSE upBody]

Scenarios ==
    {[info |-> Marshal(p), docs |-> Worlds(Unreachable), from |-> <<p>>] : p \in Plans}
        \cup {[info |-> i, docs |-> Worlds(b), from |-> << >>] :
                 i \in HandInfos, b \in {Served(t) : t \in Bodies} \cup {Unreachable, Hung}}

DaemonNames == {"d", "e"}

\* what a download URL serves: an archive holding the executable "d", a
\* failed or a hung connection, or an archive the extraction panics on
Contents == {[status |-> "archive", files |-> {"d"}],
             [status |-> "neterr", files |-> {}],
             [status |-> "hung", files |-> {}],
             [status |-> "panic", files |-> {}]}

Unknown == [status |-> "unknown", files |-> {}]

(***************************************************************************)
(* Errors                                                                  *)
(***************************************************************************)

Err(kind, key, cause) == [kind |-> kind, key |-> key, cause |-> cause]

\* a nil error
NoErr == Err("nil", << >>, "")

\* errors.New("no \"binaries\" entries found")
ErrNoBinaries == Err("no binaries entries found", << >>, "")

\* fmt.Errorf("invalid os/arch format in key \"%s\"", key)
ErrKey(key) == Err("invalid os/arch format in key", key, "")

\* fmt.Errorf("invalid url \"%s\" in binaries[%s]: %v", val, key, err)
ErrURL(key) == Err("invalid url in binaries", key, "url.Parse")

\* fmt.Errorf("could not create temp directory: %w", err)
ErrMkdir == Err("could not create temp directory", << >>, "os.MkdirTemp")

\* the error of a download without the platform key
ErrDownload_NoKey(key, cause) == Err("error downloading binary for os/arch", << >>, cause)

\* fmt.Errorf("error downloading binary for os/arch %s: %v", osArch, err)
ErrDownload(key, cause) == Err("error downloading binary for os/arch", key, cause)

\* fmt.Errorf("could not parse plan info: %v", err)
ErrParse == Err("could not parse plan info", << >>, "json.Unmarshal")

\* the error DownloadPlanInfoFromURL returned
ErrFetch == Err("plan info download", << >>, "DownloadPlanInfoFromURL")

(***************************************************************************)
(* planinfo: the operations as functions                                   *)
(***************************************************************************)

\* DownloadPlanInfoFromURL(url) in a world docs: the body served at url, or
\* an error when nothing is
DownloadPlanInfoFromURL(docs, url) ==
    IF url \in DOMAIN docs /\ docs[url] # Hung THEN docs[url] ELSE Unreachable

ParseResult(planInfo, err, gets) == [planInfo |-> planInfo, err |-> err, gets |-> gets]

\* the tail of ParsePlanInfo: json.Unmarshal into a PlanInfo
ParseDecode(text, gets) ==
    LET u == Unmarshal(text)
    IN  IF u.ok THEN ParseResult(u.planInfo, NoErr, gets)
        ELSE ParseResult(PlanInfo(NilMap), ErrParse, gets)

\* ParsePlanInfo without the download: the string itself is decoded
ParsePlanInfo_NoFetch(docs, infoStr) == ParseDecode(TrimSpace(infoStr), << >>)

\* ParsePlanInfo with the test of url.Parse's error inverted
ParsePlanInfo_InvertedTest(docs, infoStr) ==
    LET trimmed == TrimSpace(infoStr)
        got == DownloadPlanInfoFromURL(docs, trimmed)
    IN  IF ~URLParseOK(trimmed)
        THEN IF got.ok THEN ParseDecode(got.body, <<trimmed>>)
             ELSE ParseResult(PlanInfo(NilMap), ErrFetch, <<trimmed>>)
        ELSE ParseDecode(trimmed, << >>)

\* ParsePlanInfo following a downloaded body that is itself a URL
ParsePlanInfo_FollowsBody(docs, infoStr) ==
    LET trimmed == TrimSpace(infoStr)
        got == DownloadPlanInfoFromURL(docs, trimmed)
        link == TrimSpace(got.body)
        next == DownloadPlanInfoFromURL(docs, link)
    IN  IF URLParseOK(trimmed)
        THEN IF ~got.ok THEN ParseResult(PlanInfo(NilMap), ErrFetch, <<trimmed>>)
             ELSE IF ~URLParseOK(link) THEN ParseDecode(got.body, <<trimmed>>)
             ELSE IF next.ok THEN ParseDecode(next.body, <<trimmed, link>>)
             ELSE ParseResult(PlanInfo(NilMap), ErrFetch, <<trimmed, link>>)
        ELSE ParseDecode(trimmed, << >>)

\* ParsePlanInfo decoding the info string itself when the download fails
ParsePlanInfo_FallsBack(docs, infoStr) ==
    LET trimmed == TrimSpace(infoStr)
        got == DownloadPlanInfoFromURL(docs, trimmed)
    IN  IF URLParseOK(trimmed)
        THEN IF got.ok THEN ParseDecode(got.body, <<trimmed>>)
             ELSE ParseDecode(trimmed, <<trimmed>>)
        ELSE ParseDecode(trimmed, << >>)

\* ParsePlanInfo(infoStr) in a world docs: the PlanInfo or the error it
\* returns, and the URLs it sent a GET to
ParsePlanInfo(docs, infoStr) ==
    LET trimmed == TrimSpace(infoStr)
        got == DownloadPlanInfoFromURL(docs, trimmed)
    IN  IF URLParseOK(trimmed)
        THEN IF got.ok THEN ParseDecode(got.body, <<trimmed>>)
             ELSE ParseResult(PlanInfo(NilMap), ErrFetch, <<trimmed>>)
        ELSE ParseDecode(trimmed, << >>)

\* the loop body without the test of url.Parse's error
ValidateEntry_NoURLCheck(key, val) ==
    IF key # S_any /\ ~osArchRx_MatchString(key) THEN ErrKey(key) ELSE NoErr

\* the body of ValidateBasic's loop for one entry: the error it returns
\* with, or nil to go on
ValidateEntry(key, val) ==
    IF key # S_any /\ ~osArchRx_MatchString(key) THEN ErrKey(key)
    ELSE IF ~URLParseOK(val) THEN ErrURL(key)
    ELSE NoErr

\* ValidateBasic's loop over the entries in the order the range visits them
RECURSIVE ValidateLoop(_, _)
ValidateLoop(m, order) ==
    IF order = << >> THEN NoErr
    ELSE LET e == ValidateEntry(Head(order), MapGet(m, Head(order)))
         IN  IF e # NoErr THEN e ELSE ValidateLoop(m, Tail(order))

\* the orders a range over the map may visit the keys in
RangeOrders(m) ==
    {o \in [1..MapLen(m) -> MapKeys(m)] : \A i, j \in 1..MapLen(m) : o[i] = o[j] => i = j}

\* ValidateBasic without the test of len(m)
ValidateBasic_NoLenCheck(m, order) == ValidateLoop(m, order)

\* ValidateBasic for one iteration order
ValidateBasic(m, order) ==
    IF MapLen(m) = 0 THEN ErrNoBinaries ELSE ValidateLoop(m, order)

\* every platform downloaded into the scratch directory itself
DstRoot_NoSubdirectory(tempDir, osArch) == <<tempDir, << >>>>

\* the destination of one platform: filepath.Join(tempDir,
\* strings.ReplaceAll(osArch, "/", "-"))
DstRoot(tempDir, osArch) == <<tempDir, ReplaceAll(osArch, "/", "-")>>

\* DownloadUpgrade waiting without a timeout: on a server that never
\* answers the call does not return
DownloadUpgrade_NoTimeout(content, daemonName) ==
    IF content.status = "archive"
    THEN IF daemonName \in content.files THEN "ok" ELSE "executable not found"
    ELSE IF content.status = "hung" THEN "blocked"
    ELSE content.status

\* DownloadUpgrade(dstRoot, url, daemonName) against what url serves: "ok",
\* "panic", or the cause of the error; a server that never answers is given
\* up on at the timeout
DownloadUpgrade(content, daemonName) ==
    IF content.status = "archive"
    THEN IF daemonName \in content.files THEN "ok" ELSE "executable not found"
    ELSE IF content.status = "hung" THEN "timeout"
    ELSE content.status

\* a loop that goes on to the next entry after an error
AfterDownload_Continue(res) == IF res = "panic" THEN "panic" ELSE "next"

\* what CheckURLs' loop does with the outcome of DownloadUpgrade: go on to
\* the next entry, return the error, or unwind with the panic
AfterDownload(res) ==
    IF res = "ok" THEN "next" ELSE IF res = "panic" THEN "panic" ELSE "return"

\* CheckURLs without the deferred os.RemoveAll
RemoveAll_Skipped(ds, tempDir) == ds

\* os.RemoveAll(tempDir), deferred by CheckURLs: the directory is gone
RemoveAll(ds, tempDir) == ds \ {tempDir}

\* the files under a directory go with it
RemoveFiles(ws, tempDir) == {w \in ws : w[1] # tempDir}

(***************************************************************************)
(* The program: one run of the software-upgrade command                    *)
(***************************************************************************)

VARIABLES
    pc,          \* where the command is: the call it is about to make
    flags,       \* --upgrade-info, --daemon-name and --no-validate
    serialized,  \* <<p>> when --upgrade-info is json.Marshal(p), else << >>
    docs,        \* what the plan-info URLs serve
    served,      \* what each download URL serves, once it has been asked
    netLog,      \* the network operations made so far, oldest first
    mkdirCalls,  \* how many times os.MkdirTemp has been called
    dirs,        \* the scratch directories that exist
    written,     \* the destinations that hold downloaded files
    planInfo,    \* RunE's planInfo
    parseErr,    \* what ParsePlanInfo returned
    tempDir,     \* CheckURLs' tempDir (0 before os.MkdirTemp)
    todo,        \* the keys CheckURLs' range has yet to visit
    vbErr,       \* what ValidateBasic returned
    cuErr,       \* what CheckURLs returned
    vfErr,       \* what ValidateFull returned
    cmdErr,      \* what RunE returned
    returned,    \* the functions that have returned
    msg,         \* the proposal message: "none", "built" or "broadcast"
    other        \* a second call of CheckURLs on the same machine

vars == <<pc, flags, serialized, docs, served, netLog, mkdirCalls, dirs, written,
          planInfo, parseErr, tempDir, todo, vbErr, cuErr, vfErr, cmdErr, returned, msg,
          other>>

\* the inputs of the run
inputs == <<flags, serialized, docs>>

\* the variables of the validation calls
validation == <<served, mkdirCalls, dirs, written, tempDir, todo, vbErr, cuErr, vfErr>>

TempNames == 1..MaxTempNames

\* a name os.MkdirTemp makes no directory under: one that exists
FreeNames_Fixed(ds) == {1}

\* the names os.MkdirTemp may make the directory under: those of no
\* existing directory
FreeNames(ds) == TempNames \ ds

\* the second call of CheckURLs: where it is, its tempDir, the keys its
\* range has yet to visit and the destinations it wrote
OtherCall(at, dir, keys, wrote) == [pc |-> at, tempDir |-> dir, todo |-> keys, wrote |-> wrote]

\* no second call is made
NoOtherCall == OtherCall("none", 0, {}, {})

NoDst == <<0, << >>>>

NetGet(url) ==
    [op |-> "GET", url |-> url, key |-> << >>, dst |-> NoDst, daemonName |-> "", res |-> ""]

NetDownload(url, key, dst, daemonName, res) ==
    [op |-> "DownloadUpgrade", url |-> url, key |-> key, dst |-> dst,
     daemonName |-> daemonName, res |-> res]

ErrCtx == Err("client context", << >>, "client.GetClientTxContext")

ErrDeposit == Err("deposit", << >>, "sdk.ParseCoinsNormalized")

ErrMsg == Err("message", << >>, "gov.NewMsgSubmitProposal")

ErrBroadcast == Err("broadcast", << >>, "tx.GenerateOrBroadcastTxCLI")

Init ==
    /\ \E sc \in Scenarios : \E d \in DaemonNames : \E nv \in BOOLEAN :
          /\ flags = [info |-> sc.info, daemonName |-> d, noValidate |-> nv]
          /\ docs = sc.docs
          /\ serialized = sc.from
    /\ pc = "RunE"
    /\ served = [u \in Urls |-> Unknown]
    /\ netLog = << >>
    /\ mkdirCalls = 0
    /\ dirs = {}
    /\ written = {}
    /\ planInfo = PlanInfo(NilMap)
    /\ parseErr = NoErr
    /\ tempDir = 0
    /\ todo = {}
    /\ vbErr = NoErr
    /\ cuErr = NoErr
    /\ vfErr = NoErr
    /\ cmdErr = NoErr
    /\ returned = {}
    /\ msg = "none"
    /\ other = NoOtherCall

\* RunE validating the plan info whatever --no-validate says
RunE_StartAlwaysValidates ==
    /\ pc = "RunE"
    /\ \E ctxOK \in BOOLEAN :
          IF ~ctxOK THEN /\ cmdErr' = ErrCtx
                         /\ pc' = "done"
          ELSE /\ cmdErr' = cmdErr
               /\ pc' = "ParsePlanInfo"
    /\ UNCHANGED <<inputs, other, netLog, planInfo, parseErr, returned, msg, validation>>

\* RunE up to the validation: the client context, the proposal content and
\* the --no-validate flag
RunE_Start ==
    /\ pc = "RunE"
    /\ \E ctxOK \in BOOLEAN :
          IF ~ctxOK THEN /\ cmdErr' = ErrCtx
                         /\ pc' = "done"
          ELSE /\ cmdErr' = cmdErr
               /\ pc' = IF flags.noValidate THEN "submit" ELSE "ParsePlanInfo"
    /\ UNCHANGED <<inputs, other, netLog, planInfo, parseErr, returned, msg, validation>>

\* planInfo, err = planinfo.ParsePlanInfo(prop.Plan.Info)
RunE_ParsePlanInfo ==
    /\ pc = "ParsePlanInfo"
    /\ LET r == ParsePlanInfo(docs, flags.info)
       IN  /\ netLog' = netLog \o [i \in 1..Len(r.gets) |-> NetGet(r.gets[i])]
           /\ parseErr' = r.err
           /\ IF r.err # NoErr
              THEN /\ cmdErr' = r.err
                   /\ pc' = "done"
                   /\ planInfo' = planInfo
              ELSE /\ planInfo' = r.planInfo
                   /\ pc' = "ValidateFull"
                   /\ cmdErr' = cmdErr
    /\ returned' = returned \cup {"ParsePlanInfo"}
    /\ UNCHANGED <<inputs, other, msg, validation>>

\* ValidateFull going on to CheckURLs whatever ValidateBasic returned
ValidateFull_IgnoresBasic ==
    /\ pc = "ValidateFull"
    /\ \E order \in RangeOrders(planInfo.Binaries) :
          vbErr' = ValidateBasic(planInfo.Binaries, order)
    /\ pc' = "CheckURLs"
    /\ returned' = returned \cup {"ValidateBasic"}
    /\ UNCHANGED <<inputs, other, served, netLog, mkdirCalls, dirs, written, planInfo, parseErr,
                   tempDir, todo, cuErr, vfErr, cmdErr, msg>>

\* ValidateFull: m.Binaries.ValidateBasic(), and the return of its error
ValidateFull_ValidateBasic ==
    /\ pc = "ValidateFull"
    /\ \E order \in RangeOrders(planInfo.Binaries) :
          LET e == ValidateBasic(planInfo.Binaries, order)
          IN  /\ vbErr' = e
              /\ IF e # NoErr
                 THEN /\ vfErr' = e
                      /\ pc' = "validated"
                      /\ returned' = returned \cup {"ValidateBasic", "ValidateFull"}
                 ELSE /\ vfErr' = vfErr
                      /\ pc' = "CheckURLs"
                      /\ returned' = returned \cup {"ValidateBasic"}
    /\ UNCHANGED <<inputs, other, served, netLog, mkdirCalls, dirs, written, planInfo, parseErr,
                   tempDir, todo, cuErr, cmdErr, msg>>

\* CheckURLs: os.MkdirTemp("", "os-arch-downloads").  It fails, or makes a
\* directory under a name that is not in use
CheckURLs_MkdirTemp ==
    /\ pc = "CheckURLs"
    /\ mkdirCalls' = mkdirCalls + 1
    /\ \/ /\ cuErr' = ErrMkdir
          /\ pc' = "CheckURLs_ret"
          /\ returned' = returned \cup {"CheckURLs"}
          /\ UNCHANGED <<dirs, tempDir, todo>>
       \/ \E name \in FreeNames(dirs) :
             /\ tempDir' = name
             /\ dirs' = dirs \cup {name}
             /\ todo' = MapKeys(planInfo.Binaries)
             /\ pc' = "range"
             /\ UNCHANGED <<cuErr, returned>>
    /\ UNCHANGED <<inputs, other, served, netLog, written, planInfo, parseErr, vbErr, vfErr,
                   cmdErr, msg>>

\* CheckURLs: one iteration of the range, on any entry not yet visited.
\* An error returns and a panic unwinds, either way through the deferred
\* os.RemoveAll(tempDir); a call of DownloadUpgrade that does not return
\* leaves the run inside it
CheckURLs_Range ==
    /\ pc = "range"
    /\ todo # {}
    /\ \E osArch \in todo :
          LET url == MapGet(planInfo.Binaries, osArch)
              dstRoot == DstRoot(tempDir, osArch)
          IN  \E content \in (IF served[url] = Unknown THEN Contents ELSE {served[url]}) :
                 LET res == DownloadUpgrade(content, flags.daemonName)
                     files == IF content.status = "archive" THEN written \cup {dstRoot}
                              ELSE written
                 IN  /\ served' = [served EXCEPT ![url] = content]
                     /\ netLog' = Append(netLog,
                                         NetDownload(url, osArch, dstRoot, flags.daemonName, res))
                     /\ IF res = "blocked"
                        THEN /\ pc' = "DownloadUpgrade"
                             /\ UNCHANGED <<todo, written, dirs, cuErr, returned>>
                        ELSE IF AfterDownload(res) = "next"
                        THEN /\ todo' = todo \ {osArch}
                             /\ written' = files
                             /\ UNCHANGED <<pc, dirs, cuErr, returned>>
                        ELSE /\ dirs' = RemoveAll(dirs, tempDir)
                             /\ written' = RemoveFiles(files, tempDir)
                             /\ todo' = todo
                             /\ IF AfterDownload(res) = "panic"
                                THEN /\ pc' = "panic"
                                     /\ UNCHANGED <<cuErr, returned>>
                                ELSE /\ cuErr' = ErrDownload(osArch, res)
                                     /\ pc' = "CheckURLs_ret"
                                     /\ returned' = returned \cup {"CheckURLs"}
    /\ UNCHANGED <<inputs, other, mkdirCalls, planInfo, parseErr, tempDir, vbErr, vfErr, cmdErr, msg>>

\* CheckURLs returning nil from inside the loop
CheckURLs_ReturnEarly ==
    /\ pc = "range"
    /\ cuErr' = NoErr
    /\ dirs' = RemoveAll(dirs, tempDir)
    /\ written' = RemoveFiles(written, tempDir)
    /\ pc' = "CheckURLs_ret"
    /\ returned' = returned \cup {"CheckURLs"}
    /\ UNCHANGED <<inputs, other, served, netLog, mkdirCalls, planInfo, parseErr, tempDir, todo,
                   vbErr, vfErr, cmdErr, msg>>

\* CheckURLs leaving the map keyed by the names of the destinations
CheckURLs_ReturnRenamesKeys ==
    /\ pc = "range"
    /\ todo = {}
    /\ cuErr' = NoErr
    /\ dirs' = RemoveAll(dirs, tempDir)
    /\ written' = RemoveFiles(written, tempDir)
    /\ pc' = "CheckURLs_ret"
    /\ returned' = returned \cup {"CheckURLs"}
    /\ planInfo' = PlanInfo(MakeMap({<<ReplaceAll(k, "/", "-"), MapGet(planInfo.Binaries, k)>> :
                                        k \in MapKeys(planInfo.Binaries)}))
    /\ UNCHANGED <<inputs, other, served, netLog, mkdirCalls, parseErr, tempDir, todo,
                   vbErr, vfErr, cmdErr, msg>>

\* CheckURLs: the range is over; return nil through the deferred
\* os.RemoveAll(tempDir)
CheckURLs_Return ==
    /\ pc = "range"
    /\ todo = {}
    /\ cuErr' = NoErr
    /\ dirs' = RemoveAll(dirs, tempDir)
    /\ written' = RemoveFiles(written, tempDir)
    /\ pc' = "CheckURLs_ret"
    /\ returned' = returned \cup {"CheckURLs"}
    /\ UNCHANGED <<inputs, other, served, netLog, mkdirCalls, planInfo, parseErr, tempDir, todo,
                   vbErr, vfErr, cmdErr, msg>>

\* ValidateFull: the return of what CheckURLs returned
ValidateFull_Return ==
    /\ pc = "CheckURLs_ret"
    /\ vfErr' = cuErr
    /\ pc' = "validated"
    /\ returned' = returned \cup {"ValidateFull"}
    /\ UNCHANGED <<inputs, other, served, netLog, mkdirCalls, dirs, written, planInfo, parseErr,
                   tempDir, todo, vbErr, cuErr, cmdErr, msg>>

\* RunE going on to the proposal whatever ValidateFull returned
RunE_ValidatedIgnoresErr ==
    /\ pc = "validated"
    /\ pc' = "submit"
    /\ UNCHANGED <<inputs, other, netLog, planInfo, parseErr, returned, msg, validation, cmdErr>>

\* RunE: if err = planInfo.ValidateFull(daemonName); err != nil { return err }
RunE_Validated ==
    /\ pc = "validated"
    /\ IF vfErr # NoErr
       THEN /\ cmdErr' = vfErr
            /\ pc' = "done"
       ELSE /\ cmdErr' = cmdErr
            /\ pc' = "submit"
    /\ UNCHANGED <<inputs, other, netLog, planInfo, parseErr, returned, msg, validation>>

\* RunE after the validation: the deposit, gov.NewMsgSubmitProposal and
\* tx.GenerateOrBroadcastTxCLI, each of which may fail
RunE_Submit ==
    /\ pc = "submit"
    /\ \E out \in {ErrDeposit, ErrMsg, ErrBroadcast, NoErr} :
          /\ cmdErr' = out
          /\ msg' = IF out \in {ErrDeposit, ErrMsg} THEN "none"
                    ELSE IF out = ErrBroadcast THEN "built"
                    ELSE "broadcast"
    /\ pc' = "done"
    /\ UNCHANGED <<inputs, other, netLog, planInfo, parseErr, returned, validation>>

Next ==
    \/ RunE_Start
    \/ RunE_ParsePlanInfo
    \/ ValidateFull_ValidateBasic
    \/ CheckURLs_MkdirTemp
    \/ CheckURLs_Range
    \/ CheckURLs_Return
    \/ ValidateFull_Return
    \/ RunE_Validated
    \/ RunE_Submit

Spec == Init /\ [][Next]_vars

(***************************************************************************)
(* Two calls of CheckURLs at once: two commands validating the same plan   *)
(* on one machine share the directory os.MkdirTemp makes directories in    *)
(* and the servers, and nothing else                                       *)
(***************************************************************************)

\* both commands are about to call CheckURLs, on a plan that ParsePlanInfo
\* returned and ValidateBasic accepted
ConcurrentInit ==
    /\ \E sc \in {s \in Scenarios : s.from # << >>} : \E d \in DaemonNames :
          /\ flags = [info |-> sc.info, daemonName |-> d, noValidate |-> FALSE]
          /\ docs = sc.docs
          /\ serialized = sc.from
          /\ planInfo = sc.from[1]
          /\ \E order \in RangeOrders(planInfo.Binaries) :
                ValidateBasic(planInfo.Binaries, order) = NoErr
    /\ pc = "CheckURLs"
    /\ other = OtherCall("CheckURLs", 0, {}, {})
    /\ returned = {"ParsePlanInfo", "ValidateBasic"}
    /\ served = [u \in Urls |-> Unknown]
    /\ netLog = << >>
    /\ mkdirCalls = 0
    /\ dirs = {}
    /\ written = {}
    /\ parseErr = NoErr
    /\ tempDir = 0
    /\ todo = {}
    /\ vbErr = NoErr
    /\ cuErr = NoErr
    /\ vfErr = NoErr
    /\ cmdErr = NoErr
    /\ msg = "none"

\* the second call: os.MkdirTemp("", "os-arch-downloads")
Other_MkdirTemp ==
    /\ other.pc = "CheckURLs"
    /\ \/ /\ other' = [other EXCEPT !.pc = "returned"]
          /\ dirs' = dirs
       \/ \E name \in FreeNames(dirs) :
             /\ other' = OtherCall("range", name, MapKeys(planInfo.Binaries), {})
             /\ dirs' = dirs \cup {name}
    /\ UNCHANGED <<inputs, pc, served, netLog, mkdirCalls, written, planInfo, parseErr, tempDir,
                   todo, vbErr, cuErr, vfErr, cmdErr, returned, msg>>

\* the second call: one iteration of the range; an error or a panic ends
\* the call through the deferred os.RemoveAll(tempDir)
Other_Range ==
    /\ other.pc = "range"
    /\ other.todo # {}
    /\ \E osArch \in other.todo :
          LET url == MapGet(planInfo.Binaries, osArch)
              dstRoot == DstRoot(other.tempDir, osArch)
          IN  \E content \in (IF served[url] = Unknown THEN Contents ELSE {served[url]}) :
                 LET res == DownloadUpgrade(content, flags.daemonName)
                     wrote == IF content.status = "archive" THEN {dstRoot} ELSE {}
                 IN  /\ served' = [served EXCEPT ![url] = content]
                     /\ IF AfterDownload(res) = "next"
                        THEN /\ other' = [other EXCEPT !.todo = @ \ {osArch},
                                                       !.wrote = @ \cup wrote]
                             /\ written' = written \cup wrote
                             /\ dirs' = dirs
                        ELSE /\ other' = [other EXCEPT !.pc = "returned"]
                             /\ dirs' = RemoveAll(dirs, other.tempDir)
                             /\ written' = RemoveFiles(written \cup wrote, other.tempDir)
    /\ UNCHANGED <<inputs, pc, netLog, mkdirCalls, planInfo, parseErr, tempDir, todo, vbErr,
                   cuErr, vfErr, cmdErr, returned, msg>>

\* the second call: the range is over; return nil through the deferred
\* os.RemoveAll(tempDir)
Other_Return ==
    /\ other.pc = "range"
    /\ other.todo = {}
    /\ other' = [other EXCEPT !.pc = "returned"]
    /\ dirs' = RemoveAll(dirs, other.tempDir)
    /\ written' = RemoveFiles(written, other.tempDir)
    /\ UNCHANGED <<inputs, pc, served, netLog, mkdirCalls, planInfo, parseErr, tempDir, todo,
                   vbErr, cuErr, vfErr, cmdErr, returned, msg>>

ConcurrentNext ==
    \/ CheckURLs_MkdirTemp
    \/ CheckURLs_Range
    \/ CheckURLs_Return
    \/ Other_MkdirTemp
    \/ Other_Range
    \/ Other_Return

ConcurrentSpec == ConcurrentInit /\ [][ConcurrentNext]_vars

\* the call of ParsePlanInfo returning, whatever it returns: the steps of
\* RunE_ParsePlanInfo are of this form
ParsePlanInfo_Returns ==
    /\ pc = "ParsePlanInfo"
    /\ pc' \in {"ValidateFull", "done"}
    /\ parseErr' \in {NoErr, ErrParse, ErrFetch}
    /\ cmdErr' = parseErr'
    /\ planInfo' \in Plans
    /\ netLog' \in {netLog, Append(netLog, NetGet(TrimSpace(flags.info)))}
    /\ returned' = returned \cup {"ParsePlanInfo"}
    /\ UNCHANGED <<inputs, other, msg, validation>>

\* the call of ValidateBasic returning, whatever it returns: the steps of
\* ValidateFull_ValidateBasic are of this form
ValidateBasic_Returns ==
    /\ pc = "ValidateFull"
    /\ pc' \in {"validated", "CheckURLs"}
    /\ vbErr' \in {NoErr, ErrNoBinaries} \cup {ErrKey(k) : k \in Keys} \cup {ErrURL(k) : k \in Keys}
    /\ vfErr' = vbErr'
    /\ returned' \in {returned \cup {"ValidateBasic"}, returned \cup {"ValidateBasic", "ValidateFull"}}
    /\ UNCHANGED <<inputs, other, served, netLog, mkdirCalls, dirs, written, planInfo, parseErr,
                   tempDir, todo, cuErr, cmdErr, msg>>

\* the other steps of the command
OtherSteps ==
    \/ RunE_Start
    \/ CheckURLs_MkdirTemp
    \/ CheckURLs_Range
    \/ CheckURLs_Return
    \/ ValidateFull_Return
    \/ RunE_Validated
    \/ RunE_Submit

\* the command is one goroutine that runs whenever it has a step to take:
\* a call that can return does return
LiveSpec ==
    Spec /\ WF_vars(ParsePlanInfo_Returns) /\ WF_vars(ValidateBasic_Returns) /\ WF_vars(OtherSteps)

(***************************************************************************)
(* The properties                                                          *)
(***************************************************************************)

\* the positions in netLog of the DownloadUpgrade calls
DownloadCalls == {i \in 1..Len(netLog) : netLog[i].op = "DownloadUpgrade"}

\* the entry's URL has been asked and DownloadUpgrade succeeded on it
Verified(osArch) ==
    LET content == served[MapGet(planInfo.Binaries, osArch)]
    IN  content # Unknown /\ DownloadUpgrade(content, flags.daemonName) = "ok"

\* C1: no scratch directory is made and no DownloadUpgrade call is made
\* before ValidateBasic has returned nil; when ValidateBasic returns an
\* error, ValidateFull returns that error and none is ever made.
C1_BasicBeforeNetwork ==
    /\ (DownloadCalls # {} \/ mkdirCalls > 0 \/ dirs # {})
          => ("ValidateBasic" \in returned /\ vbErr = NoErr)
    /\ vbErr # NoErr
          => /\ DownloadCalls = {} /\ mkdirCalls = 0 /\ dirs = {}
             /\ "ValidateFull" \in returned /\ vfErr = vbErr

\* ValidateFull has returned the error of ValidateBasic
C1_Witness == pc = "validated" /\ vbErr # NoErr /\ vfErr = vbErr

\* C2: on a binaries map with no entry, nil or empty, ValidateBasic and
\* ValidateFull return the "no binaries entries found" error, no download
\* is made and no proposal message is built.
C2_EmptyNeverValid ==
    ("ValidateBasic" \in returned /\ MapLen(planInfo.Binaries) = 0)
        => /\ vbErr = ErrNoBinaries
           /\ "ValidateFull" \in returned /\ vfErr = ErrNoBinaries
           /\ DownloadCalls = {} /\ mkdirCalls = 0
           /\ msg = "none"

\* ValidateFull has returned on an empty, non-nil map
C2_Witness ==
    /\ pc = "validated"
    /\ ~planInfo.Binaries.isNil /\ MapLen(planInfo.Binaries) = 0
    /\ vfErr = ErrNoBinaries

\* C3: ValidateBasic returns nil only when every key is "any" or matches
\* [a-zA-Z0-9]+/[a-zA-Z0-9]+ as a whole.
C3_KeysMatchWhole ==
    ("ValidateBasic" \in returned /\ vbErr = NoErr)
        => \A k \in MapKeys(planInfo.Binaries) : k = S_any \/ RxMatchesSpan(k, 1, Len(k))

\* C4: once CheckURLs has returned, or has unwound with a panic, its
\* scratch directory and everything under it are gone; none exists after a
\* failed os.MkdirTemp.
C4_ScratchRemoved ==
    ("CheckURLs" \in returned \/ pc = "panic")
        => /\ tempDir \notin dirs
           /\ \A w \in written : w[1] # tempDir
           /\ dirs = {}

\* CheckURLs has returned a timeout error after an earlier download was
\* written into the scratch directory
C4_Witness ==
    /\ pc = "CheckURLs_ret"
    /\ cuErr.cause = "timeout"
    /\ \E i \in DownloadCalls : netLog[i].res = "ok" /\ netLog[i].dst[1] = tempDir

\* C5: a failed DownloadUpgrade call is the last one made, and the error
\* CheckURLs returns is the one of that call, with its platform key.
C5_FailFast ==
    /\ \A i \in DownloadCalls : netLog[i].res # "ok" => i = Len(netLog)
    /\ ("CheckURLs" \in returned /\ cuErr # NoErr /\ cuErr # ErrMkdir)
          => /\ netLog # << >>
             /\ LET last == netLog[Len(netLog)]
                IN  /\ last.op = "DownloadUpgrade"
                    /\ last.res \notin {"ok", "panic"}
                    /\ cuErr = ErrDownload(last.key, last.res)

\* CheckURLs has returned a download error with another entry unvisited
C5_Witness ==
    /\ pc = "CheckURLs_ret"
    /\ cuErr.kind = "error downloading binary for os/arch"
    /\ todo \ {cuErr.key} # {}

\* C6: when os.MkdirTemp succeeded, CheckURLs returns nil exactly when
\* DownloadUpgrade succeeded on every entry, and ValidateFull returns nil
\* exactly when ValidateBasic returned nil and it did so.
C6_SuccessIffAllVerified ==
    LET all == \A k \in MapKeys(planInfo.Binaries) : Verified(k)
    IN  /\ ("CheckURLs" \in returned /\ cuErr # ErrMkdir) => (cuErr = NoErr <=> all)
        /\ ("ValidateFull" \in returned /\ cuErr # ErrMkdir)
              => (vfErr = NoErr <=> (vbErr = NoErr /\ "CheckURLs" \in returned /\ all))

\* ValidateFull has returned nil on a map of two entries
C6_Witness == pc = "validated" /\ vfErr = NoErr /\ MapLen(planInfo.Binaries) = 2

\* C7: two DownloadUpgrade calls of one CheckURLs call for different
\* platform keys have different destinations.
C7_DistinctDestinations ==
    \A i \in DownloadCalls : \A j \in DownloadCalls :
        netLog[i].key # netLog[j].key => netLog[i].dst # netLog[j].dst

\* ParsePlanInfo downloaded the trimmed info string and got a body
FetchedBody ==
    LET got == DownloadPlanInfoFromURL(docs, TrimSpace(flags.info))
    IN  IF URLParseOK(TrimSpace(flags.info)) /\ got.ok THEN <<got.body>> ELSE << >>

\* strings trimmed of JSON whitespace only
RECURSIVE TrimJSONSpace(_)
TrimJSONSpace(s) ==
    IF s # << >> /\ IsJSONSpace(s[1]) THEN TrimJSONSpace(Tail(s))
    ELSE IF s # << >> /\ IsJSONSpace(s[Len(s)]) THEN TrimJSONSpace(SubSeq(s, 1, Len(s) - 1))
    ELSE s

\* what ParsePlanInfo returned is what ParsePlanInfo returns on body
SameAsParsing(body) ==
    LET r == ParsePlanInfo(docs, body)
    IN  parseErr = r.err /\ (r.err = NoErr => planInfo = r.planInfo)

\* C8 as claimed: on an info string that is a URL serving body B,
\* ParsePlanInfo returns what ParsePlanInfo(B) returns, for every B.
C8_TransparentForEveryBody ==
    ("ParsePlanInfo" \in returned /\ FetchedBody # << >>) => SameAsParsing(FetchedBody[1])

\* C8 as amended: on an info string that is a URL serving body B,
\* ParsePlanInfo returns what ParsePlanInfo(B) returns, for every B that,
\* trimmed, does not parse as a URL and that has JSON whitespace only
\* around it.
C8_TransparentForDocuments ==
    ("ParsePlanInfo" \in returned /\ FetchedBody # << >>)
        => LET body == FetchedBody[1]
           IN  (~URLParseOK(TrimSpace(body)) /\ TrimJSONSpace(body) = TrimSpace(body))
                   => SameAsParsing(body)

\* ParsePlanInfo has returned the plan of a body it downloaded, a document
\* between JSON whitespace
C8_Witness ==
    /\ "ParsePlanInfo" \in returned
    /\ FetchedBody = << <<" ">> \o J_good \o <<"\n">> >>
    /\ parseErr = NoErr
    /\ planInfo = Unmarshal(J_good).planInfo

\* C9: on the JSON encoding of a PlanInfo p, ParsePlanInfo returns p and
\* sends no GET.
C9_RoundTrip ==
    ("ParsePlanInfo" \in returned /\ serialized # << >>)
        => /\ parseErr = NoErr
           /\ planInfo = serialized[1]
           /\ netLog = << >> \/ netLog[1].op # "GET"

\* ParsePlanInfo has returned on the encoding of a plan of two entries
C9_Witness ==
    /\ "ParsePlanInfo" \in returned
    /\ serialized # << >>
    /\ MapLen(serialized[1].Binaries) = 2
    /\ planInfo = serialized[1]

\* C10: without --no-validate, the proposal message is built only after
\* ParsePlanInfo and then ValidateFull have returned nil; when either
\* returns an error the command returns it and builds no message.
C10_ValidatedBeforeSubmit ==
    ~flags.noValidate
        => /\ (pc = "submit" \/ msg # "none")
                 => /\ "ParsePlanInfo" \in returned /\ parseErr = NoErr
                    /\ "ValidateFull" \in returned /\ vfErr = NoErr
           /\ "ValidateBasic" \in returned
                 => ("ParsePlanInfo" \in returned /\ parseErr = NoErr)
           /\ parseErr # NoErr => (pc = "done" /\ cmdErr = parseErr /\ msg = "none")
           /\ vfErr # NoErr
                 => /\ msg = "none"
                    /\ pc \in {"validated", "done"}
                    /\ pc = "done" => cmdErr = vfErr

\* the command has broadcast the proposal after the validation
C10_Witness ==
    /\ ~flags.noValidate
    /\ msg = "broadcast"
    /\ "ValidateFull" \in returned
    /\ DownloadCalls # {}

\* C11: with --no-validate, RunE calls neither ParsePlanInfo nor
\* ValidateFull for any --upgrade-info string: no GET, no os.MkdirTemp and
\* no DownloadUpgrade happens, no error of the validation is returned, and
\* after the client context the command goes on to the proposal message.
C11_NoValidateSkipsValidation ==
    flags.noValidate
        => /\ pc \in {"RunE", "submit", "done"}
           /\ returned = {}
           /\ netLog = << >> /\ mkdirCalls = 0 /\ dirs = {} /\ written = {}
           /\ parseErr = NoErr /\ vbErr = NoErr /\ cuErr = NoErr /\ vfErr = NoErr
           /\ cmdErr \in {NoErr, ErrCtx, ErrDeposit, ErrMsg, ErrBroadcast}
           /\ (pc = "done" /\ cmdErr # ErrCtx) => msg # "none" \/ cmdErr \in {ErrDeposit, ErrMsg}

\* with --no-validate the command has broadcast a proposal whose info
\* string is neither a URL nor JSON
C11_Witness ==
    /\ flags.noValidate
    /\ flags.info = <<":", "x">>
    /\ msg = "broadcast"

\* C12: the fetch of the plan info and every DownloadUpgrade give up on a
\* server that never answers, so ParsePlanInfo returns once called and
\* ValidateFull returns (or unwinds with a panic) once called; after a
\* timeout the scratch directory and its files are gone.
C12_BoundedByTimeout ==
    (pc \in {"ParsePlanInfo", "ValidateFull"})
        ~> \/ pc = "panic"
           \/ /\ "ParsePlanInfo" \in returned
              /\ parseErr = NoErr => "ValidateFull" \in returned
              /\ (\E i \in DownloadCalls : netLog[i].res = "timeout")
                    => /\ cuErr = ErrDownload(netLog[Len(netLog)].key, "timeout")
                       /\ tempDir \notin dirs
                       /\ \A w \in written : w[1] # tempDir

\* ValidateFull has returned the timeout of a download from a server that
\* never answers
C12_Witness ==
    /\ "ValidateFull" \in returned
    /\ vfErr.cause = "timeout"
    /\ \E u \in Urls : served[u].status = "hung"

\* the GETs sent so far, as indexes of netLog
GetCalls == {i \in 1..Len(netLog) : netLog[i].op = "GET"}

\* C13: one call of ParsePlanInfo sends one GET, to the trimmed info
\* string, when that string parses as a URL, and none otherwise; a body it
\* downloaded is never downloaded from; until ValidateFull is called no
\* directory is made, no file written and no DownloadUpgrade called.
C13_AtMostOneFetch ==
    LET trimmed == TrimSpace(flags.info)
    IN  /\ Cardinality(GetCalls) <= 1
        /\ "ParsePlanInfo" \in returned
              => /\ URLParseOK(trimmed) => (GetCalls = {1} /\ netLog[1].url = trimmed)
                 /\ ~URLParseOK(trimmed) => GetCalls = {}
                 /\ "ValidateBasic" \notin returned
                       => /\ Len(netLog) = Cardinality(GetCalls)
                          /\ mkdirCalls = 0 /\ dirs = {} /\ written = {}

\* ParsePlanInfo has returned after one GET whose body was the URL of
\* another document
C13_Witness ==
    /\ "ParsePlanInfo" \in returned
    /\ FetchedBody = <<U_q>>
    /\ netLog = <<NetGet(U_p)>>
    /\ parseErr = ErrParse

\* C14: when the trimmed info string parses as a URL and its download
\* fails, ParsePlanInfo returns the download's error and no PlanInfo, also
\* when the string itself is valid JSON; the command returns that error.
C14_FetchFailureIsFinal ==
    LET trimmed == TrimSpace(flags.info)
    IN  ("ParsePlanInfo" \in returned /\ URLParseOK(trimmed)
             /\ ~DownloadPlanInfoFromURL(docs, trimmed).ok)
            => /\ parseErr = ErrFetch
               /\ planInfo = PlanInfo(NilMap)
               /\ pc = "done" /\ cmdErr = ErrFetch /\ msg = "none"
               /\ "ValidateBasic" \notin returned

\* ParsePlanInfo has returned the error of the download on an info string
\* that parses as a URL and is valid JSON
C14_Witness ==
    /\ "ParsePlanInfo" \in returned
    /\ flags.info \in {J_empty, S_null}
    /\ Unmarshal(flags.info).ok
    /\ netLog = <<NetGet(flags.info)>>
    /\ parseErr = ErrFetch

\* C15 as claimed: every error CheckURLs returns names the platform key
\* whose check failed and carries the cause, the error of os.MkdirTemp
\* included.
C15_EveryErrorNamesKey ==
    ("CheckURLs" \in returned /\ cuErr # NoErr)
        => /\ cuErr.key \in MapKeys(planInfo.Binaries)
           /\ cuErr.cause # ""

\* C15 as amended: the error CheckURLs returns for a failed
\* DownloadUpgrade names the platform key of that call and carries its
\* cause; the error for a failed os.MkdirTemp carries the cause and names
\* no platform key.
C15_DownloadErrorNamesKey ==
    ("CheckURLs" \in returned /\ cuErr # NoErr)
        => \/ /\ tempDir = 0
              /\ cuErr = ErrMkdir /\ cuErr.cause # "" /\ cuErr.key = << >>
              /\ DownloadCalls = {}
           \/ /\ tempDir # 0
              /\ cuErr.kind = "error downloading binary for os/arch"
              /\ cuErr.key \in MapKeys(planInfo.Binaries)
              /\ \E i \in DownloadCalls :
                    /\ netLog[i].key = cuErr.key
                    /\ netLog[i].res = cuErr.cause
                    /\ netLog[i].res \notin {"ok", "panic", ""}

\* CheckURLs has returned the error of a download that found no
\* executable, on a map of two entries
C15_Witness ==
    /\ "CheckURLs" \in returned
    /\ MapLen(planInfo.Binaries) = 2
    /\ cuErr.cause = "executable not found"
    /\ cuErr.key \in MapKeys(planInfo.Binaries)

\* C16: a call of ValidateBasic returns what any other call on an equal
\* map returns, whatever order the range visits the entries in: the same
\* error, naming the same key, also on a map with several violations; and
\* the call sends nothing and touches no directory.
C16_SameOutcomeInEveryOrder ==
    ("ValidateBasic" \in returned)
        => /\ \A order \in RangeOrders(planInfo.Binaries) :
                 ValidateBasic(planInfo.Binaries, order) = vbErr
           /\ "CheckURLs" \notin returned /\ pc # "range" /\ pc # "panic"
                 => (DownloadCalls = {} /\ dirs = {} /\ written = {})

\* the destinations this call downloaded an archive to
Wrote == {netLog[i].dst : i \in {j \in DownloadCalls : served[netLog[j].url].status = "archive"}}

\* C17: two calls of CheckURLs running at once have different scratch
\* directories; each writes under its own directory only; and while a
\* call is in its range its directory and what it wrote there exist,
\* whatever the other call has removed.
C17_OwnScratchDirectory ==
    /\ (pc = "range" /\ other.pc = "range") => tempDir # other.tempDir
    /\ \A w \in Wrote : w[1] = tempDir
    /\ \A w \in other.wrote : w[1] = other.tempDir
    /\ pc = "range" => (tempDir \in dirs /\ Wrote \subseteq written)
    /\ other.pc = "range" => (other.tempDir \in dirs /\ other.wrote \subseteq written)

\* one call has returned and removed its directory while the other, which
\* has written into its own, is still in its range
C17_Witness ==
    /\ other.pc = "returned" /\ other.tempDir # 0
    /\ pc = "range"
    /\ Wrote # {}
    /\ dirs = {tempDir}

\* C18: on a non-empty map whose keys all pass the key test and that holds
\* a value url.Parse rejects, ValidateBasic returns the invalid-url error
\* of a key whose value url.Parse rejects, and ValidateFull returns it;
\* ValidateBasic returns nil on no map that holds such a value.
C18_BadURLRejected ==
    LET m == planInfo.Binaries
        bad == {k \in MapKeys(m) : ~URLParseOK(MapGet(m, k))}
    IN  "ValidateBasic" \in returned
            => /\ vbErr = NoErr => bad = {}
               /\ (bad # {} /\ \A k \in MapKeys(m) : k = S_any \/ osArchRx_MatchString(k))
                     => /\ vbErr \in {ErrURL(k) : k \in bad}
                        /\ vfErr = vbErr
                        /\ mkdirCalls = 0 /\ DownloadCalls = {}

\* ValidateBasic has returned the invalid-url error of one entry of a map
\* whose other entry is valid
C18_Witness ==
    /\ "ValidateBasic" \in returned
    /\ vbErr = ErrURL(K_osarch)
    /\ MapKeys(planInfo.Binaries) = {K_osarch, S_any}
    /\ URLParseOK(MapGet(planInfo.Binaries, S_any))

\* C19: no step of ValidateBasic, CheckURLs or ValidateFull, returning nil
\* or an error or unwinding with a panic, changes the PlanInfo they were
\* called on: its keys and values stay as they were.
C19_PlanInfoUnchanged ==
    [][(pc \in {"ValidateFull", "CheckURLs", "range", "CheckURLs_ret"})
           => (planInfo' = planInfo)]_vars

\* ValidateFull has returned the error of a download, the plan being the
\* one the info string encodes
C19_Witness ==
    /\ pc = "validated"
    /\ serialized # << >> /\ planInfo = serialized[1]
    /\ vfErr.kind = "error downloading binary for os/arch"
    /\ MapLen(planInfo.Binaries) = 2

\* C20: every DownloadUpgrade call of a CheckURLs call is for an entry of
\* the map, with that entry's URL, the caller's daemonName and the
\* destination tempDir/<key with "/" replaced by "-">; no entry gets two
\* calls; and when CheckURLs returns nil every entry got its call.
C20_OncePerEntry ==
    /\ \A i \in DownloadCalls :
          /\ netLog[i].key \in MapKeys(planInfo.Binaries)
          /\ netLog[i].url = MapGet(planInfo.Binaries, netLog[i].key)
          /\ netLog[i].daemonName = flags.daemonName
          /\ netLog[i].dst[1] = tempDir /\ tempDir \in TempNames
          /\ netLog[i].dst[2] = ReplaceAll(netLog[i].key, "/", "-")
          /\ \A j \in DownloadCalls : netLog[j].key = netLog[i].key => j = i
    /\ ("CheckURLs" \in returned /\ cuErr = NoErr)
          => {netLog[i].key : i \in DownloadCalls} = MapKeys(planInfo.Binaries)

\* CheckURLs has returned nil after two calls, for two entries with the
\* same URL
C20_Witness ==
    /\ "CheckURLs" \in returned /\ cuErr = NoErr
    /\ Cardinality(DownloadCalls) = 2
    /\ \A i \in DownloadCalls : netLog[i].url = U_x /\ netLog[i].res = "ok"

====
